---- MODULE Spec2Model ----
(***************************************************************************)
(* Two independent Streamlit applications.                                 *)
(*                                                                         *)
(*   Project_1/app.py  inventory dashboard: a session-held list of product *)
(*                     records, an identifier counter, and the views that  *)
(*                     every script run recomputes from the list.          *)
(*   Project_2/app.py  missing-data cleaner: an uploaded table, a fill     *)
(*                     method, a scope option and the Clean Data handler.  *)
(*                                                                         *)
(* Each application has its own specification (Spec for the inventory,     *)
(* SpecCleaner for the cleaner); the variables of the other application    *)
(* stay at their initial values.                                           *)
(*                                                                         *)
(* Modelling decisions.                                                    *)
(*  - One action is one user interaction together with the script run it   *)
(*    triggers (handler, st.rerun, and the render pass that follows).      *)
(*  - The random module is a choice among NumStreams outcome streams; each *)
(*    stream fixes every draw of one generate_sample_data call, within     *)
(*    the ranges the code passes to randint/choice.                        *)
(*  - Floating point numbers are exact rationals <<n, d>> in lowest terms. *)
(*  - A cell of a table is <<>> when missing (NaN), <<n, d>> when numeric, *)
(*    <<s>> when text.  A column's dtype is inferred from its cells as     *)
(*    read_csv does: object iff some cell is text.                         *)
(*  - Series.fillna(inplace=True) on cleaned_df[col] writes through to     *)
(*    cleaned_df (pandas without copy-on-write, the behaviour the code     *)
(*    relies on).                                                          *)
(***************************************************************************)
EXTENDS Integers, Sequences, FiniteSets, TLC

VARIABLES
    \* ---- Project_1 (inventory) ----
    data,        \* st.session_state.data : sequence of product records
    next_id,     \* st.session_state.next_id
    form,        \* values of the add-product form as last submitted
    event,       \* the widget that triggered the current script run
    message,     \* text of st.error shown by the current run ("" if none)
    dashboard,   \* what render_dashboard produced in the current run
    runs,        \* number of script reruns in this session
    \* ---- Project_2 (cleaner) ----
    uploaded,          \* uploaded_file is not None
    df,                \* the parsed table (sequence of columns)
    fill_method,       \* radio: "Mean" | "Median" | "Mode"
    exclude_cols,      \* checkbox "Exclude non-numeric columns from filling"
    clicked,           \* the Clean Data button fired in the current run
    cleaned_df,        \* the cleaned table shown by the current run
    remaining_missing, \* cleaned_df.isnull().sum().sum() of the current run
    notice             \* "success" | "warning" | "" shown by the current run

invVars   == <<data, next_id, form, event, message, dashboard, runs>>
cleanVars == <<uploaded, df, fill_method, exclude_cols, clicked, cleaned_df,
               remaining_missing, notice>>
vars      == <<data, next_id, form, event, message, dashboard, runs,
               uploaded, df, fill_method, exclude_cols, clicked, cleaned_df,
               remaining_missing, notice>>

(***************************************************************************)
(* Bounds                                                                  *)
(***************************************************************************)
MaxRuns == 3
NumStreams == 2
MaxRows == 4

(***************************************************************************)
(* Project_1: constants and formatting                                     *)
(***************************************************************************)
CATEGORIES == <<"Electronics", "Clothing", "Grocery", "Stationery", "Sports">>

PRODUCT_NAMES ==
    <<"Phone", "T-Shirt", "Bread", "Notebook", "Football",
      "Laptop", "Jeans", "Milk", "Pen", "Tennis Ball",
      "Tablet", "Jacket", "Eggs", "Marker", "Cricket Bat",
      "Headphones", "Shoes", "Butter", "Stapler", "Basketball">>

NumItems == 20

Digit == <<"0", "1", "2", "3", "4", "5", "6", "7", "8", "9">>

\* str(n) for n >= 0
RECURSIVE ToDec(_)
ToDec(n) == IF n < 10 THEN Digit[n + 1]
            ELSE ToDec(n \div 10) \o Digit[(n % 10) + 1]

\* left-pad with "0" to width w (the 0w of a format spec)
RECURSIVE ZeroPad(_, _)
ZeroPad(s, w) == IF Len(s) < w THEN ZeroPad("0" \o s, w) ELSE s

\* f"P{i:03d}"
FormatID(i) == "P" \o ZeroPad(ToDec(i), 3)

StatusOf_lt(quantity, reorder_level) ==
    IF quantity < reorder_level THEN "Low Stock" ELSE "In Stock"

\* 'Low Stock' if quantity <= reorder_level else 'In Stock'
StatusOf(quantity, reorder_level) ==
    IF quantity <= reorder_level THEN "Low Stock" ELSE "In Stock"

(***************************************************************************)
(* Project_1: random draws.  Stream s fixes the outcome of every call.     *)
(***************************************************************************)
RandCategory(s, i) == CATEGORIES[1 + ((s + 2 * i) % Len(CATEGORIES))]
RandName(s, i) ==
    PRODUCT_NAMES[1 + ((3 * s + 7 * i) % Len(PRODUCT_NAMES))]
        \o "-" \o ToDec(100 + ((131 * s + 57 * i) % 900))
RandQuantity(s, i) == (17 * s + 23 * i) % 101
RandReorder(s, i) == 5 + ((5 * s + 11 * i) % 26)

RECURSIVE SampleRows(_, _, _)
SampleRows(s, i, num_items) ==
    IF i > num_items THEN <<>>
    ELSE <<[ProductID         |-> FormatID(i),
            Name              |-> RandName(s, i),
            Category          |-> RandCategory(s, i),
            QuantityAvailable |-> RandQuantity(s, i),
            ReorderLevel      |-> RandReorder(s, i),
            Status            |-> StatusOf(RandQuantity(s, i),
                                           RandReorder(s, i))]>>
         \o SampleRows(s, i + 1, num_items)

generate_sample_data(s, num_items) == SampleRows(s, 1, num_items)

(***************************************************************************)
(* Project_1: views                                                        *)
(***************************************************************************)
RECURSIVE SumQuantity(_)
SumQuantity(d) ==
    IF d = <<>> THEN 0 ELSE d[1].QuantityAvailable + SumQuantity(Tail(d))

IsLowRow(r) == r.QuantityAvailable <= r.ReorderLevel

render_summary_cards_lt(d) ==
    [total_items      |-> Len(d),
     total_quantity   |-> SumQuantity(d),
     low_stock_count  |->
        Len(SelectSeq(d, LAMBDA r : r.QuantityAvailable < r.ReorderLevel)),
     categories_count |-> Cardinality({d[i].Category : i \in 1..Len(d)})]

render_summary_cards(d) ==
    [total_items      |-> Len(d),
     total_quantity   |-> SumQuantity(d),
     low_stock_count  |-> Len(SelectSeq(d, IsLowRow)),
     categories_count |-> Cardinality({d[i].Category : i \in 1..Len(d)})]

IsLowStatus(r) == r.Status = "Low Stock"

\* The loop over low_stock.iterrows(): one st.progress per row, until a row
\* raises.  Python's int / int raises ZeroDivisionError on a zero divisor;
\* st.progress raises on a value outside [0.0, 1.0].
RECURSIVE AlertLoop(_, _)
AlertLoop(rows, shown) ==
    IF rows = <<>> THEN [progress |-> shown, error |-> "none"]
    ELSE LET q == rows[1].QuantityAvailable
             r == rows[1].ReorderLevel
         IN IF r = 0
            THEN [progress |-> shown, error |-> "ZeroDivisionError"]
            ELSE IF q < 0 \/ q > r
            THEN [progress |-> shown, error |-> "StreamlitAPIException"]
            ELSE AlertLoop(Tail(rows), Append(shown, <<q, r>>))

render_alerts_section(d) == AlertLoop(SelectSeq(d, IsLowStatus), <<>>)

render_dashboard(d) ==
    IF d = <<>>
    THEN [warning |-> TRUE, cards |-> <<>>, alerts |-> <<>>]
    ELSE [warning |-> FALSE,
          cards   |-> <<render_summary_cards(d)>>,
          alerts  |-> <<render_alerts_section(d)>>]

(***************************************************************************)
(* Project_1: operations                                                   *)
(***************************************************************************)
FormNames == {"", "Pen"}
FormCategories == {CATEGORIES[1], CATEGORIES[3]}
FormQuantities == {0, 3, 10}
FormReorders == {0, 5}

DefaultForm == [name |-> "", category |-> CATEGORIES[1],
                quantity_available |-> 10, reorder_level |-> 5]

add_product_noguard(product_id, name, category, quantity, reorder_level) ==
    /\ data' = Append(data,
                  [ProductID         |-> product_id,
                   Name              |-> name,
                   Category          |-> category,
                   QuantityAvailable |-> quantity,
                   ReorderLevel      |-> reorder_level,
                   Status            |-> StatusOf(quantity, reorder_level)])
    /\ next_id' = next_id + 1
    /\ message' = ""

add_product_noincr(product_id, name, category, quantity, reorder_level) ==
    IF name = ""
    THEN /\ message' = "Please enter a product name"
         /\ UNCHANGED <<data, next_id>>
    ELSE /\ data' = Append(data,
                      [ProductID         |-> product_id,
                       Name              |-> name,
                       Category          |-> category,
                       QuantityAvailable |-> quantity,
                       ReorderLevel      |-> reorder_level,
                       Status            |-> StatusOf(quantity, reorder_level)])
         /\ next_id' = next_id
         /\ message' = ""

add_product(product_id, name, category, quantity, reorder_level) ==
    IF name = ""
    THEN /\ message' = "Please enter a product name"
         /\ UNCHANGED <<data, next_id>>
    ELSE /\ data' = Append(data,
                      [ProductID         |-> product_id,
                       Name              |-> name,
                       Category          |-> category,
                       QuantityAvailable |-> quantity,
                       ReorderLevel      |-> reorder_level,
                       Status            |-> StatusOf(quantity, reorder_level)])
         /\ next_id' = next_id + 1
         /\ message' = ""

\* Form submit: the disabled Product ID field carries f"P{next_id:03d}".
AddProduct ==
    /\ runs < MaxRuns
    /\ \E name \in FormNames, category \in FormCategories,
          quantity \in FormQuantities, reorder_level \in FormReorders :
          /\ form' = [name |-> name, category |-> category,
                      quantity_available |-> quantity,
                      reorder_level |-> reorder_level]
          /\ add_product(FormatID(next_id), name, category,
                         quantity, reorder_level)
    /\ event' = "Add Product"
    /\ dashboard' = render_dashboard(data')
    /\ runs' = runs + 1
    /\ UNCHANGED cleanVars

GenerateSampleData ==
    /\ runs < MaxRuns
    /\ \E s \in 1..NumStreams : data' = generate_sample_data(s, NumItems)
    /\ next_id' = Len(data') + 1
    /\ event' = "Generate Sample Data"
    /\ message' = ""
    /\ dashboard' = render_dashboard(data')
    /\ runs' = runs + 1
    /\ UNCHANGED form
    /\ UNCHANGED cleanVars

ClearAllData_keepid ==
    /\ runs < MaxRuns
    /\ data' = <<>>
    /\ next_id' = next_id
    /\ event' = "Clear All Data"
    /\ message' = ""
    /\ dashboard' = render_dashboard(data')
    /\ runs' = runs + 1
    /\ UNCHANGED form
    /\ UNCHANGED cleanVars

ClearAllData ==
    /\ runs < MaxRuns
    /\ data' = <<>>
    /\ next_id' = 1
    /\ event' = "Clear All Data"
    /\ message' = ""
    /\ dashboard' = render_dashboard(data')
    /\ runs' = runs + 1
    /\ UNCHANGED form
    /\ UNCHANGED cleanVars

(***************************************************************************)
(* Project_2: values, cells and columns                                    *)
(***************************************************************************)
NaN == <<>>

RECURSIVE GCD(_, _)
GCD(a, b) == IF b = 0 THEN a ELSE GCD(b, a % b)

\* the rational n/d (n >= 0, d > 0) in lowest terms
Rat(n, d) == LET g == GCD(n, d) IN <<n \div g, d \div g>>

RatAdd(a, b) == Rat(a[1] * b[2] + b[1] * a[2], a[2] * b[2])
RatDivInt(a, k) == Rat(a[1], a[2] * k)
RatLess(a, b) == a[1] * b[2] < b[1] * a[2]

\* code point order of the strings that occur in the tables
StrOrder == <<"Bav1", "Kumar", "Moena", "a", "b">>
StrRank(s) == CHOOSE i \in 1..Len(StrOrder) : StrOrder[i] = s
StrLess(s, t) == StrRank(s) < StrRank(t)

\* order used by sort_values on one column (numbers or strings)
ValLess(a, b) == IF Len(a) = 2 THEN RatLess(a, b) ELSE StrLess(a[1], b[1])

isnull(c) == Len(c) = 0
notnull(c) == Len(c) # 0

\* Series.isnull().sum()
null_count(cells) == Len(SelectSeq(cells, isnull))

dropna(cells) == SelectSeq(cells, notnull)

\* dtype as read_csv infers it: object iff some cell is text
is_numeric_dtype(cells) == \A i \in 1..Len(cells) : Len(cells[i]) # 1

RECURSIVE Insert(_, _)
Insert(v, sorted) ==
    IF sorted = <<>> THEN <<v>>
    ELSE IF ValLess(sorted[1], v)
         THEN <<sorted[1]>> \o Insert(v, Tail(sorted))
         ELSE <<v>> \o sorted

RECURSIVE SortVals(_)
SortVals(vals) ==
    IF vals = <<>> THEN <<>> ELSE Insert(vals[1], SortVals(Tail(vals)))

RECURSIVE SumVals(_)
SumVals(vals) ==
    IF vals = <<>> THEN <<0, 1>> ELSE RatAdd(vals[1], SumVals(Tail(vals)))

mean_all_rows(cells) ==
    LET vals == dropna(cells)
    IN IF vals = <<>> THEN NaN ELSE RatDivInt(SumVals(vals), Len(cells))

\* Series.mean(): NaN are skipped; NaN when nothing is left
mean(cells) ==
    LET vals == dropna(cells)
    IN IF vals = <<>> THEN NaN ELSE RatDivInt(SumVals(vals), Len(vals))

\* Series.median(): NaN are skipped; NaN when nothing is left
median(cells) ==
    LET vals == SortVals(dropna(cells))
        n    == Len(vals)
    IN IF n = 0 THEN NaN
       ELSE IF n % 2 = 1 THEN vals[(n + 1) \div 2]
       ELSE RatDivInt(RatAdd(vals[n \div 2], vals[(n \div 2) + 1]), 2)

Count(v, vals) == Len(SelectSeq(vals, LAMBDA w : w = v))

RECURSIVE Unique(_)
Unique(vals) ==
    IF vals = <<>> THEN <<>>
    ELSE <<vals[1]>> \o Unique(SelectSeq(Tail(vals), LAMBDA w : w # vals[1]))

MostFrequent(vals) ==
    SelectSeq(Unique(vals),
              LAMBDA v : \A i \in 1..Len(vals) : Count(vals[i], vals) <= Count(v, vals))

mode_unsorted(cells) == MostFrequent(dropna(cells))

\* Series.mode(): the most frequent non-missing values, in ascending order
mode(cells) == SortVals(MostFrequent(dropna(cells)))

fillna_first(cells, value) ==
    LET missing == {i \in 1..Len(cells) : isnull(cells[i])}
    IN [i \in 1..Len(cells) |->
          IF i \in missing /\ \A j \in missing : i <= j THEN value ELSE cells[i]]

\* Series.fillna(value): every missing cell becomes value (a NaN value
\* leaves them missing)
fillna(cells, value) ==
    [i \in 1..Len(cells) |-> IF isnull(cells[i]) THEN value ELSE cells[i]]

None == [none |-> TRUE, value |-> NaN]
Some(v) == [none |-> FALSE, value |-> v]

filled_value_nomedian(method, cells) ==
    IF method = "Mean" /\ is_numeric_dtype(cells) THEN Some(mean(cells))
    ELSE IF method = "Mode"
         THEN IF mode(cells) # <<>> THEN Some(mode(cells)[1]) ELSE None
    ELSE None

\* the if/elif chain that picks filled_value
filled_value(method, cells) ==
    IF method = "Mean" /\ is_numeric_dtype(cells) THEN Some(mean(cells))
    ELSE IF method = "Median" /\ is_numeric_dtype(cells) THEN Some(median(cells))
    ELSE IF method = "Mode"
         THEN IF mode(cells) # <<>> THEN Some(mode(cells)[1]) ELSE None
    ELSE None

\* body of the loop over cols_to_process
ProcessColumn(method, col) ==
    IF null_count(col.cells) > 0
    THEN LET fv == filled_value(method, col.cells)
         IN IF ~fv.none
            THEN [name |-> col.name, cells |-> fillna(col.cells, fv.value)]
            ELSE col
    ELSE col

\* select_dtypes(include=[np.number]).columns, or all columns
InScope(exclude, col) == exclude => is_numeric_dtype(col.cells)

\* cleaned_df after the loop
Clean(table, method, exclude) ==
    [i \in 1..Len(table) |->
        IF InScope(exclude, table[i]) THEN ProcessColumn(method, table[i])
        ELSE table[i]]

\* DataFrame.isnull().sum().sum()
RECURSIVE isnull_sum_sum(_)
isnull_sum_sum(table) ==
    IF table = <<>> THEN 0
    ELSE null_count(table[1].cells) + isnull_sum_sum(Tail(table))

(***************************************************************************)
(* Project_2: the tables a session may upload                              *)
(***************************************************************************)
NumVals == {1, 2}
TextVals == {"a", "b"}
NumCells == {NaN} \cup {<<v, 1>> : v \in NumVals}
TextCells == {NaN} \cup {<<s>> : s \in TextVals}

\* example_data of the information page
example_df ==
    <<[name |-> "Name",   cells |-> <<<<"Bav1">>, <<"Moena">>, <<"Kumar">>>>],
      [name |-> "Age",    cells |-> <<<<28, 1>>, NaN, <<30, 1>>>>],
      [name |-> "Salary", cells |-> <<NaN, <<45000, 1>>, <<50000, 1>>>>]>>

Methods == {"Mean", "Median", "Mode"}

(***************************************************************************)
(* Project_2: operations                                                   *)
(***************************************************************************)
\* a run without the Clean Data button shows no cleaned table
NoCleanOutput ==
    /\ clicked' = FALSE
    /\ cleaned_df' = <<>>
    /\ remaining_missing' = 0
    /\ notice' = ""

UploadFile ==
    /\ ~uploaded
    /\ uploaded' = TRUE
    /\ \/ \E n \in [1..MaxRows -> NumCells], t \in [1..MaxRows -> TextCells] :
             df' = <<[name |-> "A", cells |-> n], [name |-> "B", cells |-> t]>>
       \/ \E n \in [1..MaxRows -> NumCells], m \in [1..MaxRows -> NumCells] :
             df' = <<[name |-> "A", cells |-> n], [name |-> "B", cells |-> m]>>
       \/ df' = example_df
    /\ NoCleanOutput
    /\ UNCHANGED <<fill_method, exclude_cols>>
    /\ UNCHANGED invVars

RemoveFile ==
    /\ uploaded
    /\ uploaded' = FALSE
    /\ df' = <<>>
    /\ NoCleanOutput
    /\ UNCHANGED <<fill_method, exclude_cols>>
    /\ UNCHANGED invVars

SelectMethod ==
    /\ \E m \in Methods \ {fill_method} : fill_method' = m
    /\ NoCleanOutput
    /\ UNCHANGED <<uploaded, df, exclude_cols>>
    /\ UNCHANGED invVars

ToggleExclude ==
    /\ exclude_cols' = ~exclude_cols
    /\ NoCleanOutput
    /\ UNCHANGED <<uploaded, df, fill_method>>
    /\ UNCHANGED invVars

CleanData ==
    /\ uploaded
    /\ clicked' = TRUE
    /\ cleaned_df' = Clean(df, fill_method, exclude_cols)
    /\ remaining_missing' = isnull_sum_sum(cleaned_df')
    /\ notice' = IF remaining_missing' = 0 THEN "success" ELSE "warning"
    /\ UNCHANGED <<uploaded, df, fill_method, exclude_cols>>
    /\ UNCHANGED invVars

\* Cleaner before any upload: radio on its first option, checkbox off.
CleanerIdle ==
    /\ uploaded = FALSE
    /\ df = <<>>
    /\ fill_method = "Mean"
    /\ exclude_cols = FALSE
    /\ clicked = FALSE
    /\ cleaned_df = <<>>
    /\ remaining_missing = 0
    /\ notice = ""

\* First script run: initialize_data, then the first render.
Init ==
    /\ \E s \in 1..NumStreams : data = generate_sample_data(s, NumItems)
    /\ next_id = Len(data) + 1
    /\ form = DefaultForm
    /\ event = "none"
    /\ message = ""
    /\ dashboard = render_dashboard(data)
    /\ runs = 0
    /\ CleanerIdle

Next ==
    \/ AddProduct
    \/ GenerateSampleData
    \/ ClearAllData

Spec == Init /\ [][Next]_vars

(***************************************************************************)
(* Properties of the inventory application (checked under Spec)            *)
(***************************************************************************)
Last(seq) == seq[Len(seq)]

\* a step in which add_product appended a record
AddedStep ==
    /\ event' = "Add Product"
    /\ runs' = runs + 1
    /\ form'.name # ""

\* C1: every record of the collection has status "Low Stock" if and only if
\* its quantity-available is at most its reorder-level, and "In Stock"
\* otherwise.
C1_DerivedStatus ==
    \A i \in 1..Len(data) :
        /\ data[i].Status \in {"Low Stock", "In Stock"}
        /\ data[i].Status = "Low Stock"
              <=> data[i].QuantityAvailable <= data[i].ReorderLevel

C1_Witness ==
    /\ event = "Add Product"
    /\ Len(data) = NumItems + 2
    /\ data[NumItems + 1].QuantityAvailable = data[NumItems + 1].ReorderLevel
    /\ data[NumItems + 1].Status = "Low Stock"
    /\ data[NumItems + 2].QuantityAvailable = 10
    /\ data[NumItems + 2].Status = "In Stock"

\* C4: an add-product submitted with an empty product name leaves the record
\* collection and the identifier counter exactly as they were.
C4_EmptyNameRejected ==
    [][(event' = "Add Product" /\ form'.name = "")
          => (data' = data /\ next_id' = next_id)]_vars

C4_Witness ==
    /\ event = "Add Product"
    /\ form.name = ""
    /\ message = "Please enter a product name"
    /\ Len(data) = NumItems + 1
    /\ next_id = NumItems + 2

\* C5: clear-all leaves the collection empty and the counter at 1, and the
\* next successful add-product creates the record P001.
C5_ClearAllResets ==
    [][/\ event' = "Clear All Data" => (data' = <<>> /\ next_id' = 1)
       /\ (event = "Clear All Data" /\ AddedStep)
             => (Len(data') = 1 /\ data'[1].ProductID = "P001")]_vars

C5_Witness ==
    /\ event = "Add Product"
    /\ form.name # ""
    /\ Len(data) = 1
    /\ data[1].ProductID = "P001"
    /\ next_id = 2

\* C6: no two records have the same identifier; each successful add-product
\* appends exactly one record whose identifier is "P" followed by the
\* counter zero-padded to three digits, and increments the counter by one.
C6_UniqueIdentifiers ==
    /\ [](\A i, j \in 1..Len(data) :
            data[i].ProductID = data[j].ProductID => i = j)
    /\ [][AddedStep =>
            /\ Len(data') = Len(data) + 1
            /\ SubSeq(data', 1, Len(data)) = data
            /\ Last(data').ProductID = "P" \o ZeroPad(ToDec(next_id), 3)
            /\ next_id' = next_id + 1]_vars

C6_Witness ==
    /\ event = "Add Product"
    /\ Len(data) = NumItems + 2
    /\ data[NumItems].ProductID = "P020"
    /\ data[NumItems + 1].ProductID = "P021"
    /\ data[NumItems + 2].ProductID = "P022"
    /\ next_id = NumItems + 3

\* the summary shown before a step; nothing is summarised for an empty
\* collection, which counts as zero records, zero quantity, zero low stock
ShownCards ==
    IF dashboard.warning
    THEN [total_items |-> 0, total_quantity |-> 0, low_stock_count |-> 0]
    ELSE dashboard.cards[1]

\* C8: a successful add-product with quantity q and reorder-level r is
\* visible to the next summary: the record count grows by 1, the total
\* quantity by q, and the low-stock count by 1 if q <= r and by 0 otherwise.
C8_AddVisibleInSummary ==
    [][AddedStep =>
        LET q   == form'.quantity_available
            r   == form'.reorder_level
            new == dashboard'.cards[1]
        IN /\ ~dashboard'.warning
           /\ new.total_items = ShownCards.total_items + 1
           /\ new.total_quantity = ShownCards.total_quantity + q
           /\ new.low_stock_count =
                 ShownCards.low_stock_count + (IF q <= r THEN 1 ELSE 0)]_vars

C8_Witness ==
    /\ event = "Add Product"
    /\ form.name # ""
    /\ form.quantity_available = 3
    /\ form.reorder_level = 5
    /\ Last(data).Status = "Low Stock"
    /\ Len(data) = 2
    /\ data[1].QuantityAvailable = 0
    /\ data[1].ReorderLevel = 0
    /\ dashboard.cards[1].total_quantity = 3
    /\ dashboard.cards[1].low_stock_count = 2

\* C10: rendering the low-stock alerts never divides by zero and never
\* produces an out-of-range progress value: every record with status
\* "Low Stock" has reorder-level > 0 and 0 <= quantity <= reorder-level.
C10_AlertsNeverFail ==
    /\ \A i \in 1..Len(data) :
          data[i].Status = "Low Stock"
             => /\ data[i].ReorderLevel > 0
                /\ 0 <= data[i].QuantityAvailable
                /\ data[i].QuantityAvailable <= data[i].ReorderLevel
    /\ ~dashboard.warning => dashboard.alerts[1].error = "none"

InitCleaner ==
    /\ data = <<>>
    /\ next_id = 1
    /\ form = DefaultForm
    /\ event = "none"
    /\ message = ""
    /\ dashboard = render_dashboard(data)
    /\ runs = 0
    /\ CleanerIdle

NextCleaner ==
    \/ UploadFile
    \/ RemoveFile
    \/ SelectMethod
    \/ ToggleExclude
    \/ CleanData

SpecCleaner == InitCleaner /\ [][NextCleaner]_vars

(***************************************************************************)
(* Properties of the cleaner (checked under SpecCleaner)                   *)
(***************************************************************************)
Rows(cells) == 1..Len(cells)
PresentRows(cells) == {i \in Rows(cells) : cells[i] # NaN}
MissingRows(cells) == {i \in Rows(cells) : cells[i] = NaN}
NumericColumn(cells) == \A i \in PresentRows(cells) : Len(cells[i]) = 2

\* the scope the option selects: all columns, or the numeric ones
ScopeHas(cells) == exclude_cols => NumericColumn(cells)

RECURSIVE NumeratorSum(_, _)
NumeratorSum(cells, P) ==
    IF P = {} THEN 0
    ELSE LET i == CHOOSE k \in P : TRUE
         IN cells[i][1] + NumeratorSum(cells, P \ {i})

\* v is the arithmetic mean of the present (integer) values
IsMeanOf(v, cells) ==
    LET P == PresentRows(cells)
    IN /\ \A i \in P : cells[i][2] = 1
       /\ v[1] * Cardinality(P) = NumeratorSum(cells, P) * v[2]

\* x is the k-th smallest (k counted from 0) of the present values
IsOrderStat(x, k, cells) ==
    LET P == PresentRows(cells)
    IN /\ Cardinality({i \in P : RatLess(cells[i], x)}) <= k
       /\ k < Cardinality({i \in P : ~RatLess(x, cells[i])})

\* v is the median: the middle value, or half the sum of the two middle ones
IsMedianOf(v, cells) ==
    LET P == PresentRows(cells)
        n == Cardinality(P)
    IN \E i, j \in P :
          /\ IsOrderStat(cells[i], (n - 1) \div 2, cells)
          /\ IsOrderStat(cells[j], n \div 2, cells)
          /\ 2 * v[1] * cells[i][2] * cells[j][2]
                = (cells[i][1] * cells[j][2] + cells[j][1] * cells[i][2]) * v[2]

Occurrences(v, cells) == Cardinality({i \in Rows(cells) : cells[i] = v})

\* v is a most frequent present value
IsMostFrequent(v, cells) ==
    /\ \E i \in PresentRows(cells) : cells[i] = v
    /\ \A i \in PresentRows(cells) :
          Occurrences(cells[i], cells) <= Occurrences(v, cells)

TiedValues(cells) ==
    {cells[i] : i \in {k \in PresentRows(cells) : IsMostFrequent(cells[k], cells)}}

IsFillValue(method, v, cells) ==
    CASE method = "Mean"   -> NumericColumn(cells) /\ IsMeanOf(v, cells)
      [] method = "Median" -> NumericColumn(cells) /\ IsMedianOf(v, cells)
      [] method = "Mode"   -> IsMostFrequent(v, cells)

\* C2 as stated: every missing cell of every in-scope column is replaced by
\* the column's fill value (mean, median or most frequent value of its
\* non-missing values), and every non-missing cell keeps its value.
C2_EveryInScopeMissingCellFilled ==
    clicked =>
        \A c \in 1..Len(df) :
            ScopeHas(df[c].cells) =>
                \A r \in Rows(df[c].cells) :
                    IF df[c].cells[r] = NaN
                    THEN /\ cleaned_df[c].cells[r] # NaN
                         /\ IsFillValue(fill_method, cleaned_df[c].cells[r],
                                        df[c].cells)
                    ELSE cleaned_df[c].cells[r] = df[c].cells[r]

\* a column the method can fill: some value is present, and the column is
\* numeric unless the method is Mode
Fillable(cells) ==
    /\ PresentRows(cells) # {}
    /\ fill_method = "Mode" \/ NumericColumn(cells)

C2_Scenario ==
    (df = example_df /\ fill_method = "Mean" /\ ~exclude_cols)
        => /\ cleaned_df[2].cells = <<<<28, 1>>, <<29, 1>>, <<30, 1>>>>
           /\ cleaned_df[3].cells = <<<<47500, 1>>, <<45000, 1>>, <<50000, 1>>>>

\* C2 amended: every missing cell of every in-scope column that is numeric
\* (under Mean or Median) and has a non-missing value is replaced by the
\* column's single fill value; the missing cells of the other in-scope
\* columns stay missing; every non-missing cell keeps its value.
C2_FillableColumnsFilled ==
    clicked =>
        /\ Len(cleaned_df) = Len(df)
        /\ C2_Scenario
        /\ \A c \in 1..Len(df) :
              ScopeHas(df[c].cells) =>
                 LET col == df[c].cells
                     out == cleaned_df[c].cells
                 IN /\ Len(out) = Len(col)
                    /\ \A r \in PresentRows(col) : out[r] = col[r]
                    /\ IF Fillable(col)
                       THEN \A r, r2 \in MissingRows(col) :
                               /\ out[r] # NaN
                               /\ out[r] = out[r2]
                               /\ IsFillValue(fill_method, out[r], col)
                       ELSE \A r \in MissingRows(col) : out[r] = NaN

C2_Witness ==
    /\ clicked
    /\ fill_method = "Mean"
    /\ ~exclude_cols
    /\ Len(df) = 2
    /\ df[1].cells[1] = NaN
    /\ cleaned_df[1].cells[1] = <<3, 2>>
    /\ df[2].cells[1] = NaN
    /\ PresentRows(df[2].cells) # {}
    /\ NumericColumn(df[2].cells) = FALSE
    /\ cleaned_df[2].cells[1] = NaN

\* the columns C3 is about: in scope, with cells to fill and several values
\* tied for the highest frequency
TiedColumn(cells) ==
    /\ ScopeHas(cells)
    /\ MissingRows(cells) # {}
    /\ Cardinality(TiedValues(cells)) > 1

FirstTiedRow(cells) ==
    CHOOSE i \in PresentRows(cells) :
        /\ IsMostFrequent(cells[i], cells)
        /\ \A j \in PresentRows(cells) : IsMostFrequent(cells[j], cells) => i <= j

\* C3 as stated: under Mode, with several values tied for the highest
\* frequency, the fill value is the tied value met first in row order.
C3_TieFirstEncountered ==
    (clicked /\ fill_method = "Mode") =>
        \A c \in 1..Len(df) :
            TiedColumn(df[c].cells) =>
                \A r \in MissingRows(df[c].cells) :
                    cleaned_df[c].cells[r] = df[c].cells[FirstTiedRow(df[c].cells)]

\* C3 amended: under Mode, with several values tied for the highest
\* frequency, the fill value is the smallest tied value (numeric order for
\* numbers, code point order for text).
C3_TieSmallest ==
    (clicked /\ fill_method = "Mode") =>
        \A c \in 1..Len(df) :
            TiedColumn(df[c].cells) =>
                \A r \in MissingRows(df[c].cells) :
                    LET v == cleaned_df[c].cells[r]
                    IN /\ v \in TiedValues(df[c].cells)
                       /\ \A w \in TiedValues(df[c].cells) : ~ValLess(w, v)

C3_Witness ==
    /\ clicked
    /\ fill_method = "Mode"
    /\ Len(df) = 2
    /\ df[2].cells[1] = <<"b">>
    /\ df[2].cells[2] = <<"a">>
    /\ \A r \in 3..Len(df[2].cells) : df[2].cells[r] = NaN
    /\ \A r \in 3..Len(df[2].cells) : cleaned_df[2].cells[r] = <<"a">>
    /\ df[1].cells[1] = <<2, 1>>
    /\ df[1].cells[2] = <<1, 1>>
    /\ \A r \in 3..Len(df[1].cells) : df[1].cells[r] = NaN
    /\ \A r \in 3..Len(df[1].cells) : cleaned_df[1].cells[r] = <<1, 1>>

MissingCells(table) ==
    {<<c, r>> \in (1..Len(table)) \X (1..(MaxRows + 1)) :
        r <= Len(table[c].cells) /\ table[c].cells[r] = NaN}

EntirelyEmpty(cells) == PresentRows(cells) = {}
NonNumericUnderMeanOrMedian(cells) ==
    ~NumericColumn(cells) /\ fill_method \in {"Mean", "Median"}
NonNumericExcluded(cells) == ~NumericColumn(cells) /\ exclude_cols

\* C7 as stated: the reported count is the number of missing cells of the
\* output, and it is zero unless some column is non-numeric under Mean or
\* Median, or entirely empty.
C7_RemainingOnlyIfIneligible ==
    clicked =>
        /\ remaining_missing = Cardinality(MissingCells(cleaned_df))
        /\ remaining_missing # 0 =>
              \E c \in 1..Len(df) :
                  \/ NonNumericUnderMeanOrMedian(df[c].cells)
                  \/ EntirelyEmpty(df[c].cells)

\* C7 amended: the reported count is the number of missing cells of the
\* output, and it is zero unless some column is non-numeric under Mean or
\* Median, non-numeric while the exclude-non-numeric option is set, or
\* entirely empty; every column that keeps a missing cell is such a column.
C7_RemainingOnlyIfIneligibleOrExcluded ==
    clicked =>
        /\ remaining_missing = Cardinality(MissingCells(cleaned_df))
        /\ notice = (IF remaining_missing = 0 THEN "success" ELSE "warning")
        /\ remaining_missing # 0 =>
              \E c \in 1..Len(df) : MissingRows(cleaned_df[c].cells) # {}
        /\ \A c \in 1..Len(df) :
              MissingRows(cleaned_df[c].cells) # {} =>
                  \/ NonNumericUnderMeanOrMedian(df[c].cells)
                  \/ NonNumericExcluded(df[c].cells)
                  \/ EntirelyEmpty(df[c].cells)

C7_Witness ==
    /\ clicked
    /\ fill_method = "Mode"
    /\ exclude_cols
    /\ Len(df) = 2
    /\ MissingRows(df[1].cells) # {}
    /\ PresentRows(df[1].cells) # {}
    /\ MissingRows(cleaned_df[1].cells) = {}
    /\ ~NumericColumn(df[2].cells)
    /\ MissingRows(df[2].cells) # {}
    /\ remaining_missing = Cardinality(MissingRows(df[2].cells))
    /\ notice = "warning"

\* C9: running the engine on its own output, with the same method and
\* scope, yields a table equal to that output.
C9_Idempotent ==
    clicked => Clean(cleaned_df, fill_method, exclude_cols) = cleaned_df

C9_Witness ==
    /\ clicked
    /\ Len(df) = 2
    /\ Cardinality(MissingRows(df[1].cells)) >= 2
    /\ MissingRows(cleaned_df[1].cells) = {}
    /\ Cardinality(MissingRows(df[2].cells)) >= 2
    /\ ~NumericColumn(df[2].cells)
    /\ MissingRows(cleaned_df[2].cells) = {}
    /\ Clean(cleaned_df, fill_method, exclude_cols) = cleaned_df

====
